---- MODULE Spec2Model ----
(***************************************************************************)
(* A model of the UBSS pipeline of MAGPRIME                                *)
(* (magprime/algorithms/interference/UBSS.py): the centroid tracker        *)
(* (setMagnetometers, updateCentroids), the per-axis driver clean with the *)
(* worker pool of weightedReconstruction, and the per-bin solver loop      *)
(* processData.                                                            *)
(*                                                                         *)
(* Numbers.  A complex number is a pair <<re, im>> of integers.  A         *)
(* centroid is a record [den, v]: the complex vector v / den, kept in      *)
(* lowest terms, so that the exponential smoothing of updateCentroids is   *)
(* computed exactly.  Comparisons against cos(15 deg) and sqrt(2) - 1 are  *)
(* decided exactly on integers (see AngleBelowTol and DeltaBelow).         *)
(* Floating-point rounding is not modelled.                                *)
(***************************************************************************)
EXTENDS Integers, Sequences, FiniteSets, TLC

VARIABLES
    \* ---- module-level state of UBSS.py
    magnetometers,      \* UBSS.py:57   number of sensors
    clusterCentroids,   \* UBSS.py:59   OrderedDict: sequence of [key, val]
    \* ---- history of the calls made on the centroid tracker
    calls,              \* the last two calls: [op, n, batch, lr, before]
    nCalls,             \* number of calls made so far
    nObs,               \* number of observations fed so far
    \* ---- clean / clusterNSGT / demixNSGT / weightedReconstruction
    pc,                 \* position of clean
    axis,               \* loop variable of clean (UBSS.py:77)
    learned,            \* per finished axis: the centroids after clustering
    fed,                \* per axis: the batch clusterNSGT handed over
    batchA,             \* the matrix A packed into func (UBSS.py:166-171)
    tasks,              \* bins not yet taken by a worker, in bin order
    running,            \* worker -> the task it is solving, or NoTask
    unsorted,           \* imap: results that arrived ahead of their turn
    items,              \* imap: results gathered so far, in yield order
    solved,             \* bin -> [done, A, out, seq]: what its worker solved, and when
    \* ---- processData
    bin,                \* the inputs of the call: [A, data, boom]
    st                  \* the locals of the call
\* (end of variables)

centroidVars == <<magnetometers, clusterCentroids>>
historyVars == <<calls, nCalls, nObs>>
cleanVars == <<pc, axis, learned, fed, batchA, tasks, running, unsorted, items, solved>>
solveVars == <<bin, st>>
vars == <<centroidVars, historyVars, cleanVars, solveVars>>

-----------------------------------------------------------------------------
\* Bounds of the model.

\* calls made on the centroid tracker in one behaviour
MaxCalls == 3
\* observations fed to updateCentroids in one behaviour
MaxObs == 3
\* time-frequency bins of one axis
MaxBins == 2
\* worker processes of the pool (mp.cpu_count() - 1 on the host)
Workers == 2

-----------------------------------------------------------------------------
\* Arithmetic helpers.

Abs(x) == IF x < 0 THEN -x ELSE x

RECURSIVE GcdNat(_, _)
GcdNat(a, b) == IF b = 0 THEN a ELSE GcdNat(b, a % b)

Gcd(a, b) == GcdNat(Abs(a), Abs(b))

RECURSIVE SumSeq(_)
SumSeq(s) == IF s = <<>> THEN 0 ELSE Head(s) + SumSeq(Tail(s))

RECURSIVE GcdSeq(_)
GcdSeq(s) == IF s = <<>> THEN 0 ELSE Gcd(Head(s), GcdSeq(Tail(s)))

\* a/b > c/d for a, c >= 0 and b, d > 0, decided on the continued fractions
\* of the two sides, so that no product of the four numbers is formed.
RECURSIVE FracGT(_, _, _, _)
FracGT(a, b, c, d) ==
    LET qa == a \div b
        qc == c \div d
        ra == a % b
        rc == c % d
    IN  IF qa # qc THEN qa > qc
        ELSE IF ra = 0 THEN FALSE
        ELSE IF rc = 0 THEN TRUE
        ELSE FracGT(d, rc, b, ra)

\* complex numbers <<re, im>>
Re(z) == z[1]
Im(z) == z[2]
CAdd(y, z) == <<y[1] + z[1], y[2] + z[2]>>
CSub(y, z) == <<y[1] - z[1], y[2] - z[2]>>
CMul(y, z) == <<y[1] * z[1] - y[2] * z[2], y[1] * z[2] + y[2] * z[1]>>
CScale(k, z) == <<k * z[1], k * z[2]>>
\* |z|^2
CAbs2(z) == z[1] * z[1] + z[2] * z[2]

\* np.real, np.imag of a vector
RealPart(v) == [i \in 1..Len(v) |-> Re(v[i])]
ImagPart(v) == [i \in 1..Len(v) |-> Im(v[i])]
\* np.dot of two real vectors
Dot(a, b) == SumSeq([i \in 1..Len(a) |-> a[i] * b[i]])
\* np.linalg.norm squared, of a real and of a complex vector
Norm2(a) == Dot(a, a)
CNorm2(v) == SumSeq([i \in 1..Len(v) |-> CAbs2(v[i])])

-----------------------------------------------------------------------------
\* The centroid tracker: setMagnetometers and updateCentroids.

\* np.ones(n)
Ones(n) == [den |-> 1, v |-> [i \in 1..n |-> <<1, 0>>]]

\* collections.OrderedDict({0: np.ones(n)})
InitCentroids(n) == << [key |-> 0, val |-> Ones(n)] >>

\* the keys and the values of the ordered dictionary, in insertion order
Keys(cc) == [k \in 1..Len(cc) |-> cc[k].key]
Values(cc) == [k \in 1..Len(cc) |-> cc[k].val]
KeySet(cc) == {cc[k].key : k \in 1..Len(cc)}

\* clusterCentroids[key] = val of an OrderedDict: an existing key keeps its
\* place, a new key goes to the end
DictSet(cc, key, val) ==
    IF key \in KeySet(cc)
    THEN [k \in 1..Len(cc) |-> IF cc[k].key = key THEN [key |-> key, val |-> val] ELSE cc[k]]
    ELSE Append(cc, [key |-> key, val |-> val])

\* the vector v / den in lowest terms
Normalize(den, v) ==
    LET g == Gcd(den, GcdSeq([i \in 1..(2 * Len(v)) |->
                     IF i <= Len(v) THEN Re(v[i]) ELSE Im(v[i - Len(v)])]))
    IN  [den |-> den \div g, v |-> [i \in 1..Len(v) |-> <<Re(v[i]) \div g, Im(v[i]) \div g>>]]

\* the direction of a vector: its numerators divided by their common factor
\* (the angle test does not depend on the length of either vector)
Direction(v) ==
    LET g == GcdSeq([i \in 1..(2 * Len(v)) |->
                     IF i <= Len(v) THEN Re(v[i]) ELSE Im(v[i - Len(v)])])
    IN  IF g = 0 THEN v ELSE [i \in 1..Len(v) |-> <<Re(v[i]) \div g, Im(v[i]) \div g>>]

\* a blend that leaves out "- existing": existing + learnRate * new
BlendNoSubtract(c, o, lr) ==
    Normalize(lr[2] * c.den * o.den,
              [i \in 1..Len(c.v) |->
                  CAdd(CScale(lr[2] * o.den, c.v[i]), CScale(lr[1] * c.den, o.v[i]))])

\* existing + learnRate * (new - existing), with learnRate = lr[1] / lr[2]
Blend(c, o, lr) ==
    Normalize(lr[2] * c.den * o.den,
              [i \in 1..Len(c.v) |->
                  CAdd(CScale((lr[2] - lr[1]) * o.den, c.v[i]), CScale(lr[1] * c.den, o.v[i]))])

\* D / sqrt(P) > cos(sspTol deg) for sspTol = 15 (UBSS.py:49) and P > 0:
\* D > 0 and D^2 / P > cos^2(15 deg) = (2 + sqrt 3)/4, that is, with
\* L = 4 D^2 - 2 P: L > 0 and L^2 > 3 P^2.  Equality cannot occur on integers,
\* so the same test decides >= (UBSS.py:113, 217) and > (UBSS.py:325).
CosAboveTol(D, P) ==
    LET L == 4 * D * D - 2 * P
    IN  /\ P > 0
        /\ D > 0
        /\ L > 0
        /\ FracGT(L, P, 3 * P, L)

\* np.linalg.norm(c) and np.linalg.norm(o) are both non-zero: a and b of
\* updateCentroids are finite (a zero norm gives 0/0 = nan in every component)
AngleFinite(c, o) == CNorm2(c.v) # 0 /\ CNorm2(o.v) # 0

\* angle < np.deg2rad(sspTol), for a = real(c)/norm(c), b = real(o)/norm(o) and
\* angle = arccos(clip(dot(a, b), -1, 1)): the cosine D / sqrt(P) is above
\* cos(sspTol deg), with D = real(c).real(o) and P = |c|^2 |o|^2.  A nan angle
\* compares False.
AngleBelowTol(c, o) ==
    LET cv == Direction(c.v)
        ov == Direction(o.v)
    IN  /\ AngleFinite(c, o)
        /\ CosAboveTol(Dot(RealPart(cv), RealPart(ov)), CNorm2(cv) * CNorm2(ov))

\* the inner loop without the test cluster != 0: the ambient centroid is blended
RECURSIVE ClusterLoopBlendAll(_, _, _, _)
ClusterLoopBlendAll(r, k, o, lr) ==
    IF k > Len(r.cc) THEN r
    ELSE LET cluster == r.cc[k].key
             hit == AngleBelowTol(r.cc[k].val, o)
             cc1 == IF hit
                    THEN DictSet(r.cc, cluster, Blend(r.cc[k].val, o, lr))
                    ELSE r.cc
         IN  ClusterLoopBlendAll([cc |-> cc1, newC |-> r.newC /\ ~hit], k + 1, o, lr)

\* the inner loop of updateCentroids (UBSS.py:321-328) from position k on:
\* r = [cc, newC]
RECURSIVE ClusterLoop(_, _, _, _)
ClusterLoop(r, k, o, lr) ==
    IF k > Len(r.cc) THEN r
    ELSE LET cluster == r.cc[k].key
             hit == AngleBelowTol(r.cc[k].val, o)
             cc1 == IF hit /\ cluster # 0
                    THEN DictSet(r.cc, cluster, Blend(r.cc[k].val, o, lr))
                    ELSE r.cc
         IN  ClusterLoop([cc |-> cc1, newC |-> r.newC /\ ~hit], k + 1, o, lr)

\* a pass that appends the observation whether or not it matched
AddObservationAlways(cc, o, lr) ==
    LET r == ClusterLoop([cc |-> cc, newC |-> TRUE], 1, o, lr)
    IN  DictSet(r.cc, Len(r.cc), o)

\* one pass of the outer loop (UBSS.py:318-332) for the observation o
AddObservation(cc, o, lr) ==
    LET r == ClusterLoop([cc |-> cc, newC |-> TRUE], 1, o, lr)
    IN  IF r.newC THEN DictSet(r.cc, Len(r.cc), o) ELSE r.cc

RECURSIVE CentroidLoop(_, _, _)
CentroidLoop(cc, batch, lr) ==
    IF batch = <<>> THEN cc
    ELSE CentroidLoop(AddObservation(cc, Head(batch), lr), Tail(batch), lr)

\* updateCentroids without the size test: the loop over the rows of an empty
\* (1, 0) matrix runs once, on an empty row
updateCentroidsNoGuard(cc, batch, lr) ==
    IF Len(batch) > 0 THEN CentroidLoop(cc, batch, lr)
    ELSE AddObservation(cc, [den |-> 1, v |-> <<>>], lr)

\* updateCentroids(newCentroids, learnRate): the dictionary it leaves
updateCentroids(cc, batch, lr) ==
    IF Len(batch) > 0 THEN CentroidLoop(cc, batch, lr) ELSE cc

\* a setMagnetometers that resets only when the sensor count changes
setMagnetometersIfChanged(cc, n) ==
    IF Len(cc) > 0 /\ Len(cc[1].val.v) = n THEN cc ELSE InitCentroids(n)

\* setMagnetometers(n): the dictionary it leaves
setMagnetometers(cc, n) == InitCentroids(n)

\* the array updateCentroids returns and weightedReconstruction builds: the
\* values in key order
MixingMatrix(cc) == Values(cc)

\* ---- inputs
Vec(s) == [den |-> 1, v |-> s]

\* sensor counts a caller sets
SensorCounts == {2, 3}

\* observations (columns of newCentroids).  For 2 sensors: within 15 degrees
\* of the ambient direction (6.3 deg), along a sensor axis, within 15 degrees
\* of that axis (14.0 deg), the zero vector, and a vector whose imaginary
\* part is as large as its real part.  For 3 sensors: along two sensor axes
\* and within 15 degrees of one of them.
Obs(n) ==
    IF n = 2
    THEN { Vec(<< <<5, 0>>, <<4, 0>> >>), Vec(<< <<1, 0>>, <<0, 0>> >>),
           Vec(<< <<4, 0>>, <<1, 0>> >>), Vec(<< <<0, 0>>, <<0, 0>> >>),
           Vec(<< <<1, 1>>, <<1, 1>> >>) }
    ELSE { Vec(<< <<0, 0>>, <<1, 0>>, <<0, 0>> >>), Vec(<< <<1, 0>>, <<4, 0>>, <<0, 0>> >>),
           Vec(<< <<0, 0>>, <<0, 0>>, <<1, 0>> >>) }

\* batches of at most len observations
RECURSIVE BatchesUpTo(_, _)
BatchesUpTo(n, len) ==
    IF len = 0 THEN { <<>> }
    ELSE LET shorter == BatchesUpTo(n, len - 1)
         IN  shorter \cup { Append(b, o) : b \in {s \in shorter : Len(s) = len - 1}, o \in Obs(n) }

\* learning rates: the default 0.1 (UBSS.py:315) and 0.5
LearnRates == { <<1, 10>>, <<1, 2>> }

NoRate == <<0, 1>>

\* ---- the calls
Remember(call) == IF Len(calls) < 2 THEN Append(calls, call) ELSE <<calls[2], call>>

SetMagnetometersCall(n) ==
    /\ nCalls < MaxCalls
    /\ magnetometers' = n
    /\ clusterCentroids' = setMagnetometers(clusterCentroids, n)
    /\ calls' = Remember([op |-> "set", n |-> n, batch |-> <<>>, lr |-> NoRate,
                          before |-> clusterCentroids])
    /\ nCalls' = nCalls + 1
    /\ UNCHANGED <<nObs, cleanVars, solveVars>>

UpdateCentroidsCall(batch, lr) ==
    /\ nCalls < MaxCalls
    /\ nObs + Len(batch) <= MaxObs
    /\ clusterCentroids' = updateCentroids(clusterCentroids, batch, lr)
    /\ calls' = Remember([op |-> "update", n |-> magnetometers, batch |-> batch, lr |-> lr,
                          before |-> clusterCentroids])
    /\ nCalls' = nCalls + 1
    /\ nObs' = nObs + Len(batch)
    /\ UNCHANGED <<magnetometers, cleanVars, solveVars>>

\* values of the variables a specification does not use
IdleClean ==
    /\ pc = "idle" /\ axis = 0 /\ learned = <<>> /\ fed = <<>> /\ batchA = <<>>
    /\ tasks = <<>> /\ running = <<>> /\ unsorted = {} /\ items = <<>> /\ solved = <<>>

IdleSolve == bin = <<>> /\ st = <<>>

IdleHistory == calls = <<>> /\ nCalls = 0 /\ nObs = 0

\* the module as imported (UBSS.py:57-60)
InitModule ==
    /\ magnetometers = 3
    /\ clusterCentroids = InitCentroids(3)

InitCentroidSpec == InitModule /\ IdleHistory /\ IdleClean /\ IdleSolve

NextCentroidSpec ==
    \/ \E n \in SensorCounts : SetMagnetometersCall(n)
    \/ \E batch \in BatchesUpTo(magnetometers, MaxObs - nObs), lr \in LearnRates :
           UpdateCentroidsCall(batch, lr)

\* any sequence of setMagnetometers and updateCentroids calls
SpecCentroids == InitCentroidSpec /\ [][NextCentroidSpec]_vars

-----------------------------------------------------------------------------
\* The per-bin demixer: processData(A, b, n_clusters, data).
\*
\* A is the sequence of the columns of the mixing matrix, b (data) the bin's
\* measurement vector, x the cvxpy Variable (None before the first solution).
\* Weights and magnitudes are kept in thousandths, rounded down.  The solver
\* is an external collaborator: each problem.solve ends in one of the
\* outcomes of SolverOutcomes.

\* Number of Iterations for Compressive Sensing
cs_iters == 5

\* the largest r with r * r <= n, searched between lo and hi
RECURSIVE ISqrtIn(_, _, _)
ISqrtIn(n, lo, hi) ==
    IF lo >= hi THEN lo
    ELSE LET mid == (lo + hi + 1) \div 2
         IN  IF mid * mid <= n THEN ISqrtIn(n, mid, hi) ELSE ISqrtIn(n, lo, mid - 1)

\* np.abs of a complex number, in thousandths
AbsMilli(z) == ISqrtIn(CAbs2(z) * 1000000, 0, 40000)

None == [some |-> FALSE, v |-> <<>>]
Some(v) == [some |-> TRUE, v |-> v]

\* A @ x and A.T @ y for A given by its columns
MatVec(A, x) ==
    [i \in 1..Len(A[1]) |->
        <<SumSeq([j \in 1..Len(A) |-> Re(CMul(A[j][i], x[j]))]),
          SumSeq([j \in 1..Len(A) |-> Im(CMul(A[j][i], x[j]))])>>]
MatTVec(A, y) ==
    [j \in 1..Len(A) |->
        <<SumSeq([i \in 1..Len(y) |-> Re(CMul(A[j][i], y[i]))]),
          SumSeq([i \in 1..Len(y) |-> Im(CMul(A[j][i], y[i]))])>>]
VecSub(y, z) == [i \in 1..Len(y) |-> CSub(y[i], z[i])]

\* the constraint of the problem: norm(A.T @ (A @ x - b), 'inf') <= 0.01; on
\* integer entries the norm is 0 or at least 1
Feasible(A, x, data) ==
    \A j \in 1..Len(A) : MatTVec(A, VecSub(MatVec(A, x), data))[j] = <<0, 0>>

\* cos_sim of processData (UBSS.py:110-111): dot / sqrt(n2), with
\* n2 = |b_real|^2 |b_imag|^2; n2 = 0 is a division 0/0, which numpy
\* evaluates to nan
CosSim(data) ==
    [dot |-> Dot(RealPart(data), ImagPart(data)),
     n2 |-> Norm2(RealPart(data)) * Norm2(ImagPart(data))]
IsFinite(cos) == cos.n2 # 0

\* SSP = cos_sim >= np.cos(np.deg2rad(sspTol)) (UBSS.py:112-113); a nan
\* compares False
IsSSP(data) == IsFinite(CosSim(data)) /\ CosAboveTol(CosSim(data).dot, CosSim(data).n2)

\* cos_sim of filterSSP for one bin (UBSS.py:209-216): zero norms are set
\* to 1 and the absolute value is taken
FilterCosSim(data) ==
    LET na == Norm2(RealPart(data))
        nb == Norm2(ImagPart(data))
    IN  [dot |-> Abs(Dot(RealPart(data), ImagPart(data))),
         n2 |-> (IF na = 0 THEN 1 ELSE na) * (IF nb = 0 THEN 1 ELSE nb)]

\* SSP_Bools of filterSSP for one bin (UBSS.py:217)
FilterKeeps(data) == CosAboveTol(FilterCosSim(data).dot, FilterCosSim(data).n2)

\* np.abs(b.value).argmin(): the first index of smallest magnitude
ArgMin(data) ==
    CHOOSE i \in 1..Len(data) :
        /\ \A j \in 1..Len(data) : CAbs2(data[i]) <= CAbs2(data[j])
        /\ \A j \in 1..(i - 1) : CAbs2(data[j]) > CAbs2(data[i])

\* arr[j] = z for an array of the given dtype: a float64 array takes the real
\* part of a complex scalar and discards the imaginary part
SetItem(v, dtype, j, z) ==
    [v EXCEPT ![j] = IF dtype = "float" THEN <<Re(z), 0>> ELSE z]

\* the fallback of the except branch (UBSS.py:125-126): np.zeros(n_clusters)
\* is a float64 array, and component 0 is assigned the complex measurement
Fallback(n_clusters, data) ==
    SetItem([j \in 1..n_clusters |-> <<0, 0>>], "float", 1, data[ArgMin(data)])

\* calculate_delta_s(A, x) < np.sqrt(2) - 1.  With N = |A x|^2 and M = |x|^2,
\* delta = |N / M - 1|, and delta < sqrt 2 - 1 iff (|N - M| + M)^2 < 2 M^2.
\* M = 0 gives 0/0 = nan, which compares False.
DeltaBelow(A, x) ==
    LET N == CNorm2(MatVec(A, x))
        M == CNorm2(x)
    IN  M # 0 /\ (Abs(N - M) + M) * (Abs(N - M) + M) < 2 * M * M

\* x_ratio = sum(x_hat[1:]) / (x_hat[0] + 0.01), in thousandths
XRatio(x) ==
    (SumSeq([j \in 1..(Len(x) - 1) |-> AbsMilli(x[j + 1])]) * 1000) \div (AbsMilli(x[1]) + 10)

\* np.clip(v, .01, 100), in thousandths
Clip(v) == IF v < 10 THEN 10 ELSE IF v > 100000 THEN 100000 ELSE v

\* w.value[0] + .1 * (x_ratio - w.value[0]), clipped (UBSS.py:146-147)
NudgedWeight(w0, x_ratio) == Clip((9 * w0 + x_ratio) \div 10)

\* cp.inv_pos(cp.abs(x) + 0.01) evaluated at x, in thousandths
InvPosWeights(x) == [j \in 1..Len(x) |-> 1000000 \div (AbsMilli(x[j]) + 10)]

\* ---- inputs
\* mixing matrices: the ambient column alone, and with one interference column
Matrices ==
    { << << <<1, 0>>, <<1, 0>> >> >>,
      << << <<1, 0>>, <<1, 0>> >>, << <<1, 0>>, <<0, 0>> >> >> }

\* bins: real and imaginary parts parallel (two), a real-valued bin,
\* orthogonal parts, anti-parallel parts, and the zero bin
Bins ==
    { << <<1, 1>>, <<1, 1>> >>, << <<2, 2>>, <<1, 1>> >>, << <<1, 0>>, <<2, 0>> >>,
      << <<1, 2>>, <<2, -1>> >>, << <<-1, 1>>, <<-2, 2>> >>, << <<0, 0>>, <<0, 0>> >> }

\* boom: None (UBSS.py:53) or a sensor index
NoBoom == [some |-> FALSE, idx |-> 0]
Booms == { NoBoom, [some |-> TRUE, idx |-> 0], [some |-> TRUE, idx |-> 1] }

\* vectors a solve may leave in x
Candidates(n_clusters) ==
    IF n_clusters = 1
    THEN { << <<0, 0>> >>, << <<1, 1>> >>, << <<2, 0>> >> }
    ELSE { << <<0, 0>>, <<0, 0>> >>, << <<1, 1>>, <<0, 0>> >>, << <<1, 1>>, <<1, 1>> >>,
           << <<2, 0>>, <<-1, 0>> >>, << <<2, -1>>, <<-1, 3>> >>, << <<-2, 2>>, <<1, -1>> >> }

\* how one problem.solve can end: status 'optimal' with a feasible x; an
\* exception (x as it was); status 'infeasible' with x.value = None; status
\* 'optimal_inaccurate' with some x
SolverOutcomes(A, data) ==
    { [kind |-> "optimal", x |-> x] : x \in {c \in Candidates(Len(A)) : Feasible(A, c, data)} }
    \cup { [kind |-> "raise", x |-> <<>>], [kind |-> "infeasible", x |-> <<>>] }
    \cup { [kind |-> "inaccurate", x |-> x] : x \in Candidates(Len(A)) }

\* ---- the steps of one call
\* UBSS.py:94-115: the problem is set up and the bin classified
Setup ==
    /\ st.pc = "call"
    /\ st' = [pc |-> "loop", i |-> 0,
              x |-> None,
              xdtype |-> "complex",
              xBefore |-> None,
              lastKind |-> "none",
              objW |-> <<>>,
              invPos |-> None,
              claimedW |-> None,
              optimalAt |-> 0,
              reweights |-> 0,
              wParam |-> [j \in 1..Len(bin.A) |-> 1000 \div Len(bin.A)],
              wIs |-> "parameter",
              status |-> "none",
              cos_sim |-> CosSim(bin.data),
              SSP |-> IsSSP(bin.data),
              x_ratio |-> 0,
              solves |-> 0,
              error |-> "none",
              ret |-> None]
    /\ UNCHANGED <<bin, centroidVars, historyVars, cleanVars>>

\* problem.solve is entered (UBSS.py:120): the call is counted, and x as it
\* is before the call and the way the call ends are remembered.  The problem
\* minimises the objective built at UBSS.py:103, whose weights are the
\* Parameter created at UBSS.py:97: objW is that Parameter's value at the
\* call, claimedW the inverse-magnitude weights of the pass before.  The
\* first solve that reports 'optimal' is remembered in optimalAt.
EnterSolve(s, o) ==
    [s EXCEPT !.solves = @ + 1, !.xBefore = s.x, !.lastKind = o.kind,
              !.objW = s.wParam, !.claimedW = s.invPos,
              !.optimalAt = IF @ = 0 /\ o.kind = "optimal" THEN s.solves + 1 ELSE @]

\* the state of the locals after the try statement (UBSS.py:119-129); a
\* solution written by the solver is complex, as the Variable is
AfterSolve(s, o) ==
    LET e == EnterSolve(s, o)
    IN  CASE o.kind = "optimal" ->
               [e EXCEPT !.x = Some(o.x), !.xdtype = "complex", !.status = "optimal"]
          [] o.kind = "inaccurate" ->
               [e EXCEPT !.x = Some(o.x), !.xdtype = "complex",
                         !.status = "optimal_inaccurate"]
          [] o.kind = "infeasible" ->
               [e EXCEPT !.x = None, !.status = "infeasible"]
          [] o.kind = "raise" ->
               IF s.x.some THEN e
               ELSE [e EXCEPT !.x = Some(Fallback(Len(bin.A), bin.data)),
                              !.xdtype = "float"]

\* w = cp.inv_pos(cp.abs(x) + 0.01) (UBSS.py:134, 138): the local name w is
\* bound to a new expression, whose value at the current x is invPos; the
\* Parameter that the objective holds keeps its value
RebindW(s) ==
    [s EXCEPT !.wIs = "expression",
              !.invPos = IF s.x.some THEN Some(InvPosWeights(s.x.v)) ELSE None,
              !.reweights = @ + 1]

\* the reweighting step (UBSS.py:132-147).  In the last branch w.value[0] is
\* written: into the Parameter's array while w is still the Parameter, into
\* a temporary once w is an expression
Reweight(s) ==
    IF s.SSP THEN RebindW(s)
    ELSE IF ~s.x.some THEN [s EXCEPT !.pc = "raised", !.error = "TypeError"]
    ELSE IF DeltaBelow(bin.A, s.x.v) THEN RebindW(s)
    ELSE LET r == XRatio(s.x.v)
             t == [s EXCEPT !.x_ratio = r, !.invPos = None, !.reweights = @ + 1]
         IN  IF s.wIs = "parameter"
             THEN [t EXCEPT !.wParam[1] = NudgedWeight(s.wParam[1], r)]
             ELSE t

\* the loop variable moves on; the loop ends after cs_iters passes
NextPass(s) ==
    IF s.pc = "raised" THEN s
    ELSE [s EXCEPT !.i = @ + 1, !.pc = IF s.i + 1 < cs_iters THEN "loop" ELSE "after"]

\* a pass that goes on to the reweighting step whatever the status
IterateNoBreak(o) ==
    /\ st.pc = "loop"
    /\ st.i < cs_iters
    /\ st' = NextPass(Reweight(AfterSolve(st, o)))
    /\ UNCHANGED <<bin, centroidVars, historyVars, cleanVars>>

\* one pass of the loop (UBSS.py:118-147)
Iterate(o) ==
    /\ st.pc = "loop"
    /\ st.i < cs_iters
    /\ LET s1 == AfterSolve(st, o)
       IN  st' = IF o.kind = "optimal" THEN [s1 EXCEPT !.pc = "after"]
                 ELSE NextPass(Reweight(s1))
    /\ UNCHANGED <<bin, centroidVars, historyVars, cleanVars>>

\* the boom test is taken: `boom and ...` is false for None and for index 0
BoomConfigured(boom) == boom.some /\ boom.idx # 0

\* UBSS.py:149-153: the boom clamp and the return
Finish ==
    /\ st.pc = "after"
    /\ st' = IF ~BoomConfigured(bin.boom) THEN [st EXCEPT !.pc = "done", !.ret = st.x]
             ELSE IF ~st.x.some THEN [st EXCEPT !.pc = "raised", !.error = "TypeError"]
             ELSE IF CAbs2(st.x.v[1]) >= CAbs2(bin.data[bin.boom.idx + 1])
             THEN LET clamped == SetItem(st.x.v, st.xdtype, 1, bin.data[bin.boom.idx + 1])
                  IN  [st EXCEPT !.pc = "done", !.x = Some(clamped), !.ret = Some(clamped)]
             ELSE [st EXCEPT !.pc = "done", !.ret = st.x]
    /\ UNCHANGED <<bin, centroidVars, historyVars, cleanVars>>

\* a call of processData with any of the inputs
InitSolveSpec ==
    /\ magnetometers = 2
    /\ clusterCentroids = InitCentroids(2)
    /\ IdleHistory /\ IdleClean
    /\ bin \in [A : Matrices, data : Bins, boom : Booms]
    /\ st = [pc |-> "call"]

NextSolveSpec ==
    \/ Setup
    \/ \E o \in SolverOutcomes(bin.A, bin.data) : Iterate(o)
    \/ Finish

SpecSolve == InitSolveSpec /\ [][NextSolveSpec]_vars

-----------------------------------------------------------------------------
\* clean(B, triaxial=True) with clusterNSGT, demixNSGT and the worker pool of
\* weightedReconstruction.  The transform, the point filter and the cluster
\* engine are external: clusterNSGT hands updateCentroids some batch of
\* centroids, and every bin of the axis is demixed.

NoTask == 0

\* what processData returns for a bin: one of two amplitude vectors (whatever
\* the solver left in x), or the call raises
BinOutcomes == { "x1", "x2", "raised" }

\* centroid sets the cluster engine may return for one axis of n sensors:
\* none, one along a sensor axis, one within 15 degrees of that axis
ClusterBatches(n) ==
    IF n = 2
    THEN { <<>>, << Vec(<< <<1, 0>>, <<0, 0>> >>) >>, << Vec(<< <<4, 0>>, <<1, 0>> >>) >> }
    ELSE { <<>>, << Vec(<< <<0, 0>>, <<1, 0>>, <<0, 0>> >>) >>,
           << Vec(<< <<1, 0>>, <<4, 0>>, <<0, 0>> >>) >> }

\* learnRate of the call in clusterNSGT (UBSS.py:269, default of UBSS.py:315)
DefaultRate == <<1, 10>>

\* a processData that registers a centroid of its own in the module's dictionary
AfterProcessDataWrites(cc) == DictSet(cc, Len(cc), Ones(Len(cc[1].val.v)))

\* what a processData call leaves in the module's clusterCentroids: it reads
\* A and b and writes only its own locals
AfterProcessData(cc) == cc

\* the matrix a processData call solves against: the A packed into func
MatrixSolved(A) == A

\* IMapIterator._set without the reordering buffer (imap_unordered): results
\* are appended as they arrive
ImapSetUnordered(r, i, out) == [items |-> Append(r.items, out), unsorted |-> r.unsorted]

\* results waiting in the buffer are moved to items while the next index is there
RECURSIVE Drain(_)
Drain(r) ==
    IF \E u \in r.unsorted : u.i = Len(r.items) + 1
    THEN LET u == CHOOSE u \in r.unsorted : u.i = Len(r.items) + 1
         IN  Drain([items |-> Append(r.items, u.out), unsorted |-> r.unsorted \ {u}])
    ELSE r

\* pool.imap (UBSS.py:176): the result of bin i is yielded at place i; a
\* result that arrives ahead of its turn waits in the buffer
ImapSet(r, i, out) ==
    IF i = Len(r.items) + 1
    THEN Drain([items |-> Append(r.items, out), unsorted |-> r.unsorted])
    ELSE [items |-> r.items, unsorted |-> r.unsorted \cup {[i |-> i, out |-> out]}]

\* number of bins of the batch in progress
NBins == Len(solved)

\* UBSS.py:75-78: the loop over the axes begins with setMagnetometers(B.shape[0])
CleanSetMagnetometers(n) ==
    /\ pc = "set"
    /\ axis = 0 \/ n = magnetometers
    /\ magnetometers' = n
    /\ clusterCentroids' = setMagnetometers(clusterCentroids, n)
    /\ pc' = "cluster"
    /\ UNCHANGED <<axis, learned, fed, batchA, tasks, running, unsorted, items, solved,
                   historyVars, solveVars>>

\* UBSS.py:79: clusterNSGT ends in updateCentroids(mixingMatrix.T)
CleanCluster(batch) ==
    /\ pc = "cluster"
    /\ clusterCentroids' = updateCentroids(clusterCentroids, batch, DefaultRate)
    /\ fed' = Append(fed, batch)
    /\ learned' = Append(learned, clusterCentroids')
    /\ pc' = "demix"
    /\ UNCHANGED <<magnetometers, axis, batchA, tasks, running, unsorted, items, solved,
                   historyVars, solveVars>>

\* UBSS.py:157-176: weightedReconstruction packs A and maps the bins over the pool
StartBatch(n) ==
    /\ pc = "demix"
    /\ batchA' = MixingMatrix(clusterCentroids)
    /\ tasks' = [i \in 1..n |-> i]
    /\ running' = [w \in 1..Workers |-> NoTask]
    /\ unsorted' = {}
    /\ items' = <<>>
    /\ solved' = [i \in 1..n |-> [done |-> FALSE, A |-> <<>>, out |-> "none", seq |-> 0]]
    /\ pc' = "pool"
    /\ UNCHANGED <<centroidVars, axis, learned, fed, historyVars, solveVars>>

\* an idle worker takes the next bin
WorkerTake(w) ==
    /\ pc = "pool"
    /\ running[w] = NoTask
    /\ tasks # <<>>
    /\ running' = [running EXCEPT ![w] = Head(tasks)]
    /\ tasks' = Tail(tasks)
    /\ UNCHANGED <<centroidVars, pc, axis, learned, fed, batchA, unsorted, items, solved,
                   historyVars, solveVars>>

\* a worker finishes processData for its bin and the result reaches the iterator
WorkerFinish(w, out) ==
    /\ pc = "pool"
    /\ running[w] # NoTask
    /\ LET i == running[w]
           r == ImapSet([items |-> items, unsorted |-> unsorted], i, out)
       IN  /\ solved' = [solved EXCEPT ![i] = [done |-> TRUE, A |-> MatrixSolved(batchA), out |-> out,
                                               seq |-> 1 + Cardinality({j \in 1..Len(solved) : solved[j].done})]]
           /\ items' = r.items
           /\ unsorted' = r.unsorted
    /\ clusterCentroids' = AfterProcessData(clusterCentroids)
    /\ running' = [running EXCEPT ![w] = NoTask]
    /\ UNCHANGED <<magnetometers, pc, axis, learned, fed, batchA, tasks, historyVars, solveVars>>

\* list(...) has every result and weightedReconstruction returns
\* (UBSS.py:176-179)
Gather ==
    /\ pc = "pool"
    /\ Len(items) = NBins
    /\ \A i \in 1..Len(items) : items[i] # "raised"
    /\ pc' = "gathered"
    /\ UNCHANGED <<centroidVars, axis, learned, fed, batchA, tasks, running, unsorted, items,
                   solved, historyVars, solveVars>>

\* UBSS.py:77-80: the pool and the locals of the batch are gone; clean moves
\* to the next axis or returns
NextAxis ==
    /\ pc = "gathered"
    /\ pc' = IF axis = 2 THEN "done" ELSE "set"
    /\ axis' = IF axis = 2 THEN axis ELSE axis + 1
    /\ batchA' = <<>> /\ tasks' = <<>> /\ running' = <<>> /\ unsorted' = {}
    /\ items' = <<>> /\ solved' = <<>>
    /\ UNCHANGED <<centroidVars, learned, fed, historyVars, solveVars>>

\* the iterator reaches a bin whose processData raised: the exception leaves
\* list(...), weightedReconstruction and clean
Abort ==
    /\ pc = "pool"
    /\ \E i \in 1..Len(items) : items[i] = "raised"
    /\ pc' = "aborted"
    /\ UNCHANGED <<centroidVars, axis, learned, fed, batchA, tasks, running, unsorted, items,
                   solved, historyVars, solveVars>>

\* the module as imported, and a call of clean about to begin
InitCleanSpec ==
    /\ InitModule /\ IdleHistory /\ IdleSolve
    /\ pc = "set" /\ axis = 0 /\ learned = <<>> /\ fed = <<>> /\ batchA = <<>>
    /\ tasks = <<>> /\ running = <<>> /\ unsorted = {} /\ items = <<>> /\ solved = <<>>

NextCleanSpec ==
    \/ \E n \in SensorCounts : CleanSetMagnetometers(n)
    \/ \E batch \in ClusterBatches(magnetometers) : CleanCluster(batch)
    \/ \E n \in 1..MaxBins : StartBatch(n)
    \/ \E w \in 1..Workers : WorkerTake(w)
    \/ \E w \in 1..Workers, out \in BinOutcomes : WorkerFinish(w, out)
    \/ Gather
    \/ NextAxis
    \/ Abort

SpecClean == InitCleanSpec /\ [][NextCleanSpec]_vars

-----------------------------------------------------------------------------
\* Properties of the centroid tracker (checked under SpecCentroids).

LastCall == calls[Len(calls)]
LastIsUpdate == Len(calls) > 0 /\ LastCall.op = "update"

\* C2: in every reachable state clusterCentroids has key 0, and the centroid
\* under key 0 is the all-ones vector of length magnetometers: no call blends,
\* overwrites or removes the ambient centroid.
C2_AmbientInvariant ==
    /\ 0 \in KeySet(clusterCentroids)
    /\ \A k \in 1..Len(clusterCentroids) :
           clusterCentroids[k].key = 0 =>
               clusterCentroids[k].val = [den |-> 1, v |-> [i \in 1..magnetometers |-> <<1, 0>>]]

\* C2 witness: an update has just matched an observation against the ambient
\* centroid (an observation that is not the all-ones vector itself), with
\* other centroids already learned.
C2_Witness ==
    /\ LastIsUpdate
    /\ Len(clusterCentroids) > 1
    /\ \E i \in 1..Len(LastCall.batch) :
           /\ AngleBelowTol(Ones(magnetometers), LastCall.batch[i])
           /\ LastCall.batch[i] # Ones(magnetometers)

\* C8: a call of updateCentroids with an empty centroid set leaves
\* clusterCentroids as it was: same keys, same values, same order.
C8_EmptyUnchanged ==
    (LastIsUpdate /\ LastCall.batch = <<>>) => clusterCentroids = LastCall.before

\* C8 witness: an empty update has acted on a dictionary that holds learned
\* centroids besides the ambient one.
C8_Witness ==
    /\ LastIsUpdate
    /\ LastCall.batch = <<>>
    /\ Len(LastCall.before) > 1

\* the rational vector w equals c + lr * (o - c), component by component
IsBlendOf(w, c, o, lr) ==
    /\ Len(w.v) = Len(c.v)
    /\ \A i \in 1..Len(c.v) :
           CScale(lr[2] * c.den * o.den, w.v[i]) =
               CScale(w.den, CAdd(CScale((lr[2] - lr[1]) * o.den, c.v[i]),
                                  CScale(lr[1] * c.den, o.v[i])))

\* positions of the centroids of cc within sspTol degrees of o
Matched(cc, o) == {k \in 1..Len(cc) : AngleBelowTol(cc[k].val, o)}

\* what one observation does to the dictionary, stated position by position
StepRelation(before, after, o, lr) ==
    /\ Len(after) = Len(before) + (IF Matched(before, o) = {} THEN 1 ELSE 0)
    /\ \A k \in 1..Len(before) :
           /\ after[k].key = before[k].key
           /\ IF k \in Matched(before, o) /\ before[k].key # 0
              THEN IsBlendOf(after[k].val, before[k].val, o, lr)
              ELSE after[k].val = before[k].val
    /\ Matched(before, o) = {} =>
           after[Len(after)] = [key |-> Len(before), val |-> o]

\* the dictionaries a batch passes through, one observation at a time
RECURSIVE StepwiseStates(_, _, _)
StepwiseStates(cc, batch, lr) ==
    IF batch = <<>> THEN <<cc>>
    ELSE <<cc>> \o StepwiseStates(AddObservation(cc, Head(batch), lr), Tail(batch), lr)

\* C9: every observation of an update is compared with every existing
\* centroid; each matched centroid with a non-zero key becomes
\* existing + learnRate * (new - existing), a matched key 0 and every unmatched
\* centroid stay as they are, the observation is appended under key
\* len(clusterCentroids) exactly when nothing matched, and nothing is removed.
C9_UpdateBehaviour ==
    LastIsUpdate =>
        LET s == StepwiseStates(LastCall.before, LastCall.batch, LastCall.lr)
        IN  /\ clusterCentroids = s[Len(s)]
            /\ \A j \in 1..Len(LastCall.batch) :
                   StepRelation(s[j], s[j + 1], LastCall.batch[j], LastCall.lr)
            /\ Len(clusterCentroids) >= Len(LastCall.before)
            /\ \A k \in 1..Len(LastCall.before) :
                   clusterCentroids[k].key = LastCall.before[k].key

\* C9 witness: one update has blended a non-ambient centroid and appended
\* another observation.
C9_Witness ==
    /\ LastIsUpdate
    /\ Len(clusterCentroids) > Len(LastCall.before)
    /\ \E k \in 1..Len(LastCall.before) :
           /\ LastCall.before[k].key # 0
           /\ clusterCentroids[k].val # LastCall.before[k].val

\* the last two calls fed the same single observation
SameObservationTwice ==
    /\ Len(calls) = 2
    /\ calls[1].op = "update" /\ calls[2].op = "update"
    /\ Len(calls[1].batch) = 1
    /\ calls[2].batch = calls[1].batch

\* the second dictionary is the first up to smoothing: the same centroids
\* in the same order, each as it was or blended once more toward o
ApproximatelyUnchanged(before, after, o, lr) ==
    /\ Len(after) = Len(before)
    /\ \A k \in 1..Len(before) :
           /\ after[k].key = before[k].key
           /\ \/ after[k].val = before[k].val
              \/ IsBlendOf(after[k].val, before[k].val, o, lr)

\* C3 as stated, for an observation of non-zero norm: feeding the same
\* observation twice in succession changes the mixing matrix on the first call
\* and leaves it approximately unchanged (no centroid added, at most a further
\* smoothing step) on the second.
C3_AsStated ==
    (SameObservationTwice /\ CNorm2(calls[1].batch[1].v) # 0) =>
        /\ MixingMatrix(calls[2].before) # MixingMatrix(calls[1].before)
        /\ ApproximatelyUnchanged(calls[2].before, clusterCentroids,
                                  calls[2].batch[1], calls[2].lr)

\* the first of the two calls appended the observation as a new centroid, and
\* the observation passes the tracker's angle test against itself
AppendedAndSelfMatching ==
    /\ SameObservationTwice
    /\ Len(calls[2].before) = Len(calls[1].before) + 1
    /\ AngleBelowTol(calls[1].batch[1], calls[1].batch[1])

\* C3 (amended): when the first call appended the observation as a new
\* centroid and the observation is within sspTol degrees of itself under the
\* tracker's angle test, the first call changed the mixing matrix and the
\* second call with the same observation leaves it unchanged.
C3_AppendedThenUnchanged ==
    AppendedAndSelfMatching =>
        /\ MixingMatrix(calls[2].before) # MixingMatrix(calls[1].before)
        /\ MixingMatrix(clusterCentroids) = MixingMatrix(calls[2].before)

\* C3 witness: the same observation was fed twice, the first call appended
\* it, and it matches itself.
C3_Witness == AppendedAndSelfMatching /\ Len(calls[1].before) > 1

-----------------------------------------------------------------------------
\* Properties of clean and the worker pool (checked under SpecClean).

InDemix == pc \in {"pool", "gathered"}

C5_NoMutationInDemix ==
    InDemix =>
        /\ clusterCentroids = learned[axis + 1]
        /\ batchA = MixingMatrix(clusterCentroids)
        /\ \A i \in 1..NBins : solved[i].done => solved[i].A = batchA

\* C5 witness: a batch of several bins has been solved against a matrix with
\* a learned column.
C5_Witness ==
    /\ pc = "gathered"
    /\ NBins >= 2
    /\ Len(batchA) > 1

-----------------------------------------------------------------------------
\* Properties of processData (checked under SpecSolve).

\* C6 as stated: whatever the solver does, processData does not raise and
\* returns an amplitude vector of length n_clusters.
C6_AsStated ==
    /\ st.pc # "raised"
    /\ st.pc = "done" => (st.ret.some /\ Len(st.ret.v) = Len(bin.A))

\* C7 as stated: the similarity computed for the bin is finite (no division
\* by a zero norm), in processData as in filterSSP.
C7_AsStated ==
    /\ IsFinite(FilterCosSim(bin.data))
    /\ st.pc # "call" => IsFinite(st.cos_sim)

\* C10 as stated: with a boom index configured (0 included), the ambient
\* amplitude returned is no larger than the boom sensor's measurement.
C10_AsStated ==
    (st.pc = "done" /\ bin.boom.some /\ st.ret.some) =>
        CAbs2(st.ret.v[1]) <= CAbs2(bin.data[bin.boom.idx + 1])

\* C11 as stated: for every bin vector, anti-parallel and zero-part vectors
\* included, the SSP flag of processData equals the retain decision of
\* filterSSP for that vector.
C11_AsStated ==
    st.pc # "call" => (st.SSP <=> FilterKeeps(bin.data))

\* the zero vector with component 0 set to the bin measurement of smallest
\* magnitude
StatedFallback ==
    [j \in 1..Len(bin.A) |-> IF j = 1 THEN bin.data[ArgMin(bin.data)] ELSE <<0, 0>>]

\* C12 as stated: after a solve that raised, the solution is the stated
\* fallback if none existed before the solve, and the earlier solution
\* unchanged if one existed.
C12_AsStated ==
    (st.pc \in {"loop", "after", "raised"} /\ st.lastKind = "raise") =>
        st.x = IF st.xBefore.some THEN st.xBefore ELSE Some(StatedFallback)

\* C13 as stated: when the pass before a solve reweighted by inverse
\* magnitude (the SSP branch, or the non-SSP branch with a small delta), the
\* weights of the objective that the solve minimises are 1/(|x_j| + 0.01) of
\* the solution x of that pass.
C13_AsStated ==
    (st.pc # "call" /\ st.solves >= 2 /\ st.claimedW.some) => st.objW = st.claimedW.v

\* the call has returned or raised
Terminated == st.pc \in {"done", "raised"}

\* at most cs_iters solver calls; once a solve has reported 'optimal', that
\* solve is the last one and the weight updates are those of the passes
\* before it
BoundedAndStopsEarly ==
    st.pc # "call" =>
        /\ st.solves <= cs_iters
        /\ st.optimalAt # 0 =>
               /\ st.solves = st.optimalAt
               /\ st.reweights = st.optimalAt - 1

\* the number of steps the call can still take, at most
StepsLeft ==
    CASE st.pc = "call" -> cs_iters + 2
      [] st.pc = "loop" -> cs_iters - st.i + 1
      [] st.pc = "after" -> 1
      [] OTHER -> 0

\* a call that has not terminated can take a step: the guard of Setup, of
\* Iterate with some outcome of the solver, or of Finish holds
CanProceed ==
    ~Terminated =>
        \/ st.pc = "call"
        \/ st.pc = "loop" /\ st.i < cs_iters /\ SolverOutcomes(bin.A, bin.data) # {}
        \/ st.pc = "after"

\* C14: for every bin and every sequence of solver outcomes, the loop of
\* processData calls the solver at most cs_iters times, makes no further
\* solver call and no further weight update after the first solve that
\* reports 'optimal', and the call always terminates: it is never stuck
\* before it has returned or raised, and every step lowers the number of
\* steps left, which is never negative.
C14_BoundedLoop ==
    /\ [](BoundedAndStopsEarly /\ CanProceed /\ StepsLeft >= 0)
    /\ [][StepsLeft' < StepsLeft]_vars

\* a call that returned after stopping early: the first 'optimal' came after
\* at least one reweighting pass and before the last allowed pass
C14_Witness ==
    /\ st.pc = "done"
    /\ st.optimalAt \in 2..(cs_iters - 1)
    /\ st.solves = st.optimalAt

====
